---- MODULE Spec2Model ----
(***************************************************************************)
(* Model of examples/demo_host.py: the MCPClient request/response channel  *)
(* over a child process's stdin/stdout pipes, driven by coroutines of one  *)
(* asyncio event loop, together with the child process and the event loop  *)
(* as the environment.                                                     *)
(*                                                                         *)
(* A coroutine runs atomically between two suspension points (await that   *)
(* really suspends); every action below is one such run.                   *)
(*                                                                         *)
(* Spec      the client used freely by the coroutines Tasks                *)
(* ShapeSpec a started client whose child answers with every result shape  *)
(* ConcSpec  a started client called by several coroutines at once         *)
(* DemoSpec  main(): demo_random_tools, then demo_error_handling           *)
(***************************************************************************)
EXTENDS Integers, Sequences, FiniteSets, TLC

(* ---------------------------- bounds ---------------------------------- *)

\* cap on self.request_id (Python integers are unbounded)
MaxRequests == 2
\* cap on the number of child processes create_subprocess_exec may spawn
MaxChildren == 2
\* number of coroutines that use the one client instance
NumTasks == 1

Tasks == 1..NumTasks

\* the coroutines that exist: those above, and one more that only the
\* concurrent use of the client sets to work
Coroutines == 1..(NumTasks + 1)
Children == 1..MaxChildren

\* self.process = None
None == 0

(* ------------------------ JSON values --------------------------------- *)
\* A mapping key that may be missing is a sequence of length 0 or 1.
Absent == <<>>
Present(v) == <<v>>
Has(opt) == Len(opt) > 0

\* dict.get(key, default)
Get(opt, default) == IF Has(opt) THEN opt[1] ELSE default

\* The bodies a line on the child's stdout may carry.  json = FALSE is a
\* line that is not one JSON object.
OkBody == [json |-> TRUE, error |-> Absent,
           result |-> Present([content |-> Present(<<[text |-> Present("57")]>>)])]
ErrBody == [json |-> TRUE, error |-> Present("population must be non-empty"),
            result |-> Absent]
GarbageBody == [json |-> FALSE, error |-> Absent, result |-> Absent]

Bodies == {OkBody, ErrBody, GarbageBody}

\* One line of the child's output: the id it claims to answer, its body and
\* whether the newline that ends it was written.
Line(id, body, nl) == [id |-> id, body |-> body, nl |-> nl]

\* What readline() returns at end of file with an empty buffer: b"".
EofLine == Line(0, GarbageBody, FALSE)

(* --------------------------- state ------------------------------------ *)
VARIABLES
    process,     \* self.process: None or the child the handle refers to
    request_id,  \* self.request_id
    nspawned,    \* number of child processes created so far
    status,      \* per child: "none", "running", "exited" (dead, the event
                 \* loop has not noticed), "closed" (transport closed)
    stdin,       \* per child: request ids written to it and not yet read by it
    stdout,      \* per child: lines it emitted that the client has not read
    pc,          \* per coroutine: where it is suspended
    cur,         \* per coroutine: locals of the operation in progress
    result,      \* how the operation that ended last ended, and if it was a
                 \* call that wrote a request, what it sent and read
    written,     \* history: the ids of the request envelopes written, in order
    log,         \* history: the error payloads raised as ToolError so far
    stopped,     \* history: stop_server has terminated a child
    demo         \* main(): where the demo script is and what its phases returned

vars == <<process, request_id, nspawned, status, stdin, stdout, pc, cur,
          result, written, log, stopped, demo>>

NoCur == [id |-> 0, child |-> None, nwrites |-> 0, nreads |-> 0]

\* how an operation that is not a call that wrote a request ended: the
\* operation and "returned" or the exception
Ended(op, kind) ==
    [op |-> op, kind |-> kind, value |-> "", id |-> 0, respid |-> 0,
     nwrites |-> 0, nreads |-> 0, nl |-> TRUE]

\* main() not yet begun: phase 0.  In a phase: "start" before start_server,
\* "calls" while the calls are made, "finally" in the finally clause,
\* "between" once the phase has returned; "exit" once main has ended.
NoDemo ==
    [phase |-> 0, at |-> "main", step |-> 0, rc |-> "unset", launch |-> "unset",
     result1 |-> "unset", result2 |-> "unset", exit |-> "unset"]

\* MCPClient.__init__ and a world with no child process
Init ==
    /\ process = None
    /\ request_id = 0
    /\ nspawned = 0
    /\ status = [c \in Children |-> "none"]
    /\ stdin = [c \in Children |-> <<>>]
    /\ stdout = [c \in Children |-> <<>>]
    /\ pc = [t \in Coroutines |-> "idle"]
    /\ cur = [t \in Coroutines |-> NoCur]
    /\ result = Ended("none", "none")
    /\ written = <<>>
    /\ log = {}
    /\ stopped = FALSE
    /\ demo = NoDemo

(* ------------------------- start_server ------------------------------- *)

\* the handle start_server stores: the child create_subprocess_exec made
SpawnedHandle(old, new) == new

\* self.process = await asyncio.create_subprocess_exec(...): a child is
\* created and the handle stored.  There is no guard on self.process.
start_server(t) ==
    /\ pc[t] = "idle"
    /\ nspawned < MaxChildren
    /\ nspawned' = nspawned + 1
    /\ status' = [status EXCEPT ![nspawned + 1] = "running"]
    /\ process' = SpawnedHandle(process, nspawned + 1)
    /\ result' = Ended("start", "returned")
    /\ UNCHANGED <<request_id, stdin, stdout, pc, cur, written, log, stopped>>

\* create_subprocess_exec raises (the executable cannot be run): the
\* assignment to self.process never happens
start_server_fail(t) ==
    /\ pc[t] = "idle"
    /\ result' = Ended("start", "OSError")
    /\ UNCHANGED <<process, request_id, nspawned, status, stdin, stdout, pc,
                   cur, written, log, stopped>>

(* ------------------- send_request / call_tool ------------------------- *)

\* if not self.process
NotStarted(p) == p = None

\* the free use of the client is cut off at MaxRequests requests; the demo
\* script makes its own, fixed number of calls
Capped == demo.phase = 0 => request_id < MaxRequests

\* the increment forgotten
NextRequestId_stuck(rid) == rid

\* self.request_id += 1
NextRequestId(rid) == rid + 1

\* the text of the last content item instead of the first
Extract_last(body) ==
    LET res == Get(body.result, [content |-> Absent])
        content == Get(res.content, <<[text |-> Absent]>>)
    IN  IF Len(content) = 0
        THEN [kind |-> "IndexError", value |-> ""]
        ELSE [kind |-> "returned", value |-> Get(content[Len(content)].text, "None")]

\* response.get("result", {}).get("content", [{}])[0].get("text")
Extract(body) ==
    LET res == Get(body.result, [content |-> Absent])
        content == Get(res.content, <<[text |-> Absent]>>)
    IN  IF Len(content) = 0
        THEN [kind |-> "IndexError", value |-> ""]
        ELSE [kind |-> "returned", value |-> Get(content[1].text, "None")]

\* call_tool without its check for "error" in the response
Outcome_unchecked(line) ==
    IF ~line.body.json
    THEN [kind |-> "JSONDecodeError", value |-> ""]
    ELSE Extract(line.body)

\* json.loads of the line read, then call_tool's handling of the response
Outcome(line) ==
    IF ~line.body.json
    THEN [kind |-> "JSONDecodeError", value |-> ""]
    ELSE IF Has(line.body.error)
         THEN [kind |-> "ToolError", value |-> line.body.error[1]]
         ELSE Extract(line.body)

\* the record of a call that wrote a request and has ended: how, the id it
\* sent, the id and the newline of the line it read, its writes and reads
Finished(c, kind, value, respid, nl) ==
    [op |-> "call", kind |-> kind, value |-> value, id |-> c.id,
     respid |-> respid, nwrites |-> c.nwrites, nreads |-> c.nreads, nl |-> nl]

\* the call of coroutine t ends with record r
Finish(t, r) ==
    /\ pc' = [pc EXCEPT ![t] = "idle"]
    /\ cur' = [cur EXCEPT ![t] = NoCur]
    /\ result' = r
    /\ log' = IF r.kind = "ToolError" THEN log \cup {r.value} ELSE log

\* a coroutine is suspended in readline() on child c
Waiting(c) == \E u \in Coroutines : pc[u] = "reading" /\ cur[u].child = c

\* readline() on child c has something to return: a buffered line, or end
\* of file
Readable(c) == Len(stdout[c]) > 0 \/ status[c] # "running"

\* the line readline() returns on child c: the oldest buffered one, with or
\* without its newline, or b"" at end of file
ReadLine(c) == IF Len(stdout[c]) > 0 THEN Head(stdout[c]) ELSE EofLine

\* readline() returned `line` to the call c of coroutine t; json.loads and
\* call_tool's checks follow without suspension
Receive(t, c, child, line) ==
    /\ stdout' = [stdout EXCEPT ![child] = IF Len(@) > 0 THEN Tail(@) ELSE @]
    /\ LET o == Outcome(line)
       IN Finish(t, Finished([c EXCEPT !.nreads = @ + 1], o.kind, o.value,
                             line.id, line.nl))

\* the guard on self.process placed after the increment
send_request_unstarted_late(t) ==
    /\ pc[t] = "idle"
    /\ NotStarted(process)
    /\ Capped
    /\ request_id' = NextRequestId(request_id)
    /\ result' = Ended("call", "NotStartedError")
    /\ UNCHANGED <<process, nspawned, status, stdin, stdout, pc, cur, written,
                   log, stopped>>

\* call_tool -> send_request on a client with no process handle:
\* raise RuntimeError("Server not started")
send_request_unstarted(t) ==
    /\ pc[t] = "idle"
    /\ NotStarted(process)
    /\ result' = Ended("call", "NotStartedError")
    /\ UNCHANGED <<process, request_id, nspawned, status, stdin, stdout, pc,
                   cur, written, log, stopped>>

\* send_request on a dead child: the id is taken, the write is lost (the
\* pipe has no reader) and drain() raises ConnectionResetError
send_request_lost(t) ==
    /\ pc[t] = "idle"
    /\ ~NotStarted(process)
    /\ Capped
    /\ status[process] # "running"
    /\ request_id' = NextRequestId(request_id)
    /\ written' = Append(written, request_id')
    /\ Finish(t, Finished([NoCur EXCEPT !.id = request_id', !.nwrites = 1],
                          "ConnectionResetError", "", 0, TRUE))
    /\ UNCHANGED <<process, nspawned, status, stdin, stdout, stopped>>

\* a send_request that computes its id, is suspended, and only when resumed
\* stores the id in the counter and writes the line
send_request_split(t) ==
    \/ /\ pc[t] = "idle"
       /\ ~NotStarted(process)
       /\ Capped
       /\ status[process] = "running"
       /\ pc' = [pc EXCEPT ![t] = "allocated"]
       /\ cur' = [cur EXCEPT ![t] = [id |-> NextRequestId(request_id),
                                     child |-> process, nwrites |-> 0,
                                     nreads |-> 0]]
       /\ UNCHANGED <<process, request_id, nspawned, status, stdin, stdout,
                      result, written, log, stopped>>
    \/ /\ pc[t] = "allocated"
       /\ request_id' = cur[t].id
       /\ written' = Append(written, cur[t].id)
       /\ stdin' = [stdin EXCEPT ![cur[t].child] = Append(@, cur[t].id)]
       /\ Finish(t, Finished([cur[t] EXCEPT !.nwrites = 1], "ReadBusyError",
                             "", 0, TRUE))
       /\ UNCHANGED <<process, nspawned, status, stdout, stopped>>

\* send_request on a live child: the id is taken, the line is written,
\* drain() returns and readline() is called; the coroutine is suspended
\* only if no line is buffered
send_request(t) ==
    /\ pc[t] = "idle"
    /\ ~NotStarted(process)
    /\ Capped
    /\ status[process] = "running"
    /\ request_id' = NextRequestId(request_id)
    /\ written' = Append(written, request_id')
    /\ stdin' = [stdin EXCEPT ![process] = Append(@, request_id')]
    /\ LET c == [id |-> request_id', child |-> process, nwrites |-> 1,
                 nreads |-> 0]
       IN IF Len(stdout[process]) > 0
          THEN Receive(t, c, process, ReadLine(process))
          ELSE IF Waiting(process)
               THEN \* readuntil() called while another coroutine is
                    \* already waiting for incoming data
                    /\ Finish(t, Finished(c, "ReadBusyError", "", 0, TRUE))
                    /\ UNCHANGED stdout
               ELSE /\ pc' = [pc EXCEPT ![t] = "reading"]
                    /\ cur' = [cur EXCEPT ![t] = c]
                    /\ UNCHANGED <<stdout, result, log>>
    /\ UNCHANGED <<process, nspawned, status, stopped>>

\* a send_request that sends its request again when the line it read does
\* not decode, and reads once more
send_request_wake_retry(t) ==
    /\ pc[t] = "reading"
    /\ Readable(cur[t].child)
    /\ LET line == ReadLine(cur[t].child) IN
       IF Outcome(line).kind = "JSONDecodeError" /\ status[cur[t].child] = "running"
       THEN /\ stdout' = [stdout EXCEPT ![cur[t].child] = Tail(@)]
            /\ stdin' = [stdin EXCEPT ![cur[t].child] = Append(@, cur[t].id)]
            /\ written' = Append(written, cur[t].id)
            /\ cur' = [cur EXCEPT ![t].nwrites = @ + 1, ![t].nreads = @ + 1]
            /\ UNCHANGED <<pc, result, log>>
       ELSE /\ Receive(t, cur[t], cur[t].child, line)
            /\ UNCHANGED <<stdin, written>>
    /\ UNCHANGED <<process, request_id, nspawned, status, stopped>>

\* the suspended readline() is resumed by a line or by end of file
send_request_wake(t) ==
    /\ pc[t] = "reading"
    /\ Readable(cur[t].child)
    /\ Receive(t, cur[t], cur[t].child, ReadLine(cur[t].child))
    /\ UNCHANGED <<process, request_id, nspawned, status, stdin, written,
                   stopped>>

(* --------------------------- stop_server ------------------------------ *)

\* Process.terminate() raises ProcessLookupError once the transport of the
\* child has been closed; stop_server does not catch it
TerminateRaises(st) == st = "closed"

\* stop_server without "if self.process": None has no terminate()
stop_server_unguarded(t) ==
    /\ pc[t] = "idle"
    /\ NotStarted(process)
    /\ result' = Ended("stop", "AttributeError")
    /\ UNCHANGED <<process, request_id, nspawned, status, stdin, stdout, pc,
                   cur, written, log, stopped>>

\* if self.process: false, nothing to do
stop_server_noop(t) ==
    /\ pc[t] = "idle"
    /\ NotStarted(process)
    /\ result' = Ended("stop", "returned")
    /\ UNCHANGED <<process, request_id, nspawned, status, stdin, stdout, pc,
                   cur, written, log, stopped>>

\* self.process.terminate() raises
stop_server_raise(t) ==
    /\ pc[t] = "idle"
    /\ ~NotStarted(process)
    /\ TerminateRaises(status[process])
    /\ result' = Ended("stop", "ProcessLookupError")
    /\ UNCHANGED <<process, request_id, nspawned, status, stdin, stdout, pc,
                   cur, written, log, stopped>>

\* self.process.terminate() signals the child, which dies; the coroutine is
\* suspended in "await self.process.wait()"
stop_server(t) ==
    /\ pc[t] = "idle"
    /\ ~NotStarted(process)
    /\ ~TerminateRaises(status[process])
    /\ status' = [status EXCEPT ![process] = "exited"]
    /\ stdin' = [stdin EXCEPT ![process] = <<>>]
    /\ stopped' = TRUE
    /\ pc' = [pc EXCEPT ![t] = "wait"]
    /\ cur' = [cur EXCEPT ![t] = [NoCur EXCEPT !.child = process]]
    /\ UNCHANGED <<process, request_id, nspawned, stdout, result, written, log>>

\* wait() returns once the event loop has closed the child's transport;
\* self.process is left as it is
stop_server_done(t) ==
    /\ pc[t] = "wait"
    /\ status[cur[t].child] = "closed"
    /\ pc' = [pc EXCEPT ![t] = "idle"]
    /\ cur' = [cur EXCEPT ![t] = NoCur]
    /\ result' = Ended("stop", "returned")
    /\ UNCHANGED <<process, request_id, nspawned, status, stdin, stdout,
                   written, log, stopped>>

(* ------------------ the child process and the event loop -------------- *)

\* the ids a response to request id may carry: that of the request, or
\* that of another request; a line that is no JSON object carries none
RespIds(id, body) ==
    IF body.json THEN {id, IF id = 1 THEN 2 ELSE id - 1} ELSE {0}

\* the child reads one request and writes one response line; nothing makes
\* it answer with the id it was asked
ChildRespond(c) ==
    /\ status[c] = "running"
    /\ Len(stdin[c]) > 0
    /\ \E b \in Bodies : \E id \in RespIds(Head(stdin[c]), b) :
         stdout' = [stdout EXCEPT ![c] = Append(@, Line(id, b, TRUE))]
    /\ stdin' = [stdin EXCEPT ![c] = Tail(@)]
    /\ UNCHANGED <<process, request_id, nspawned, status, pc, cur, result,
                   written, log, stopped>>

\* what a dying child may leave unterminated at the end of its output: a
\* broken-off text, or a whole JSON object
LastWords == {GarbageBody, OkBody}

\* the child exits on its own or is killed from outside, having written
\* nothing more; what it had not read of its input is gone with the pipe
ChildExit(c) ==
    /\ status[c] = "running"
    /\ status' = [status EXCEPT ![c] = "exited"]
    /\ stdin' = [stdin EXCEPT ![c] = <<>>]
    /\ UNCHANGED <<process, request_id, nspawned, stdout, pc, cur,
                   result, written, log, stopped>>

\* the child dies while answering a request: the text of the response is
\* out, complete or not, but not the newline
ChildExitMidLine(c) ==
    /\ status[c] = "running"
    /\ Len(stdin[c]) > 0
    /\ \E b \in LastWords :
         stdout' = [stdout EXCEPT ![c] =
                       Append(@, Line(IF b.json THEN Head(stdin[c]) ELSE 0, b, FALSE))]
    /\ stdin' = [stdin EXCEPT ![c] = <<>>]
    /\ status' = [status EXCEPT ![c] = "exited"]
    /\ UNCHANGED <<process, request_id, nspawned, pc, cur, result, written,
                   log, stopped>>

\* the event loop learns of the child's death: returncode is set, the pipes
\* are disconnected, the transport drops its Popen object
LoopClose(c) ==
    /\ status[c] = "exited"
    /\ status' = [status EXCEPT ![c] = "closed"]
    /\ UNCHANGED <<process, request_id, nspawned, stdin, stdout, pc, cur,
                   result, written, log, stopped>>

(* ------------------------- specification ------------------------------ *)

Next ==
    \/ \E t \in Tasks : start_server(t) /\ UNCHANGED demo
    \/ \E t \in Tasks : start_server_fail(t) /\ UNCHANGED demo
    \/ \E t \in Tasks : send_request_unstarted(t) /\ UNCHANGED demo
    \/ \E t \in Tasks : send_request_lost(t) /\ UNCHANGED demo
    \/ \E t \in Tasks : send_request(t) /\ UNCHANGED demo
    \/ \E t \in Tasks : send_request_wake(t) /\ UNCHANGED demo
    \/ \E t \in Tasks : stop_server_noop(t) /\ UNCHANGED demo
    \/ \E t \in Tasks : stop_server_raise(t) /\ UNCHANGED demo
    \/ \E t \in Tasks : stop_server(t) /\ UNCHANGED demo
    \/ \E t \in Tasks : stop_server_done(t) /\ UNCHANGED demo
    \/ \E c \in Children : ChildRespond(c) /\ UNCHANGED demo
    \/ \E c \in Children : ChildExit(c) /\ UNCHANGED demo
    \/ \E c \in Children : ChildExitMidLine(c) /\ UNCHANGED demo
    \/ \E c \in Children : LoopClose(c) /\ UNCHANGED demo

\* the client used freely by the coroutines Tasks; the demo script is not run
Spec == Init /\ [][Next]_vars

\* the event loop runs every callback that is ready and resumes every
\* coroutine whose future is done
FairSpec ==
    /\ Spec
    /\ \A c \in Children : WF_vars(LoopClose(c))
    /\ \A t \in Tasks : WF_vars(send_request_wake(t))
    /\ \A t \in Tasks : WF_vars(stop_server_done(t))

(* ------------------- the shapes of a result envelope ------------------ *)

\* envelopes without "error": no "result"; a result without "content"; an
\* empty content list; a first item without "text", alone or followed by an
\* item that has one; two items with text
NoResultBody == [json |-> TRUE, error |-> Absent, result |-> Absent]
NoContentBody == [json |-> TRUE, error |-> Absent,
                  result |-> Present([content |-> Absent])]
EmptyContentBody == [json |-> TRUE, error |-> Absent,
                     result |-> Present([content |-> Present(<<>>)])]
NoTextBody == [json |-> TRUE, error |-> Absent,
               result |-> Present([content |-> Present(<<[text |-> Absent]>>)])]
LateTextBody == [json |-> TRUE, error |-> Absent,
                 result |-> Present([content |->
                     Present(<<[text |-> Absent], [text |-> Present("12")]>>)])]
TwoItemsBody == [json |-> TRUE, error |-> Absent,
                 result |-> Present([content |->
                     Present(<<[text |-> Present("41")], [text |-> Present("12")]>>)])]

Shapes == {OkBody, ErrBody, NoResultBody, NoContentBody, EmptyContentBody,
           NoTextBody, LateTextBody, TwoItemsBody}

\* the child answers the oldest request with an envelope of any shape,
\* carrying the id of the request
ChildRespondShape(c) ==
    /\ status[c] = "running"
    /\ Len(stdin[c]) > 0
    /\ \E b \in Shapes :
         stdout' = [stdout EXCEPT ![c] = Append(@, Line(Head(stdin[c]), b, TRUE))]
    /\ stdin' = [stdin EXCEPT ![c] = Tail(@)]
    /\ UNCHANGED <<process, request_id, nspawned, status, pc, cur, result,
                   written, log, stopped>>

ShapeNext ==
    \/ \E t \in Tasks : start_server(t) /\ NotStarted(process) /\ UNCHANGED demo
    \/ \E t \in Tasks : send_request(t) /\ UNCHANGED demo
    \/ \E t \in Tasks : send_request_wake(t) /\ UNCHANGED demo
    \/ \E t \in Tasks : send_request_lost(t) /\ UNCHANGED demo
    \/ \E c \in Children : ChildRespondShape(c) /\ UNCHANGED demo
    \/ \E c \in Children : ChildExit(c) /\ UNCHANGED demo

\* a client started once, whose child answers requests with envelopes of
\* every shape until it exits
ShapeSpec == Init /\ [][ShapeNext]_vars

(* ------------------ concurrent use of one client ---------------------- *)

ConcNext ==
    \/ \E t \in Coroutines : start_server(t) /\ NotStarted(process) /\ UNCHANGED demo
    \/ \E t \in Coroutines : send_request(t) /\ UNCHANGED demo
    \/ \E t \in Coroutines : send_request_wake(t) /\ UNCHANGED demo
    \/ \E c \in Children : ChildRespond(c) /\ UNCHANGED demo

\* a client started once and called by every coroutine there is, each
\* starting its call whenever the event loop lets it run
ConcSpec == Init /\ [][ConcNext]_vars

(* --------------------------- the demo script -------------------------- *)

\* the coroutine that runs main()
Main == 1

\* the call_tool calls of demo_random_tools and of demo_error_handling
Phase1Calls == 11
Phase2Calls == 3
Calls(phase) == IF phase = 1 THEN Phase1Calls ELSE Phase2Calls

\* request_id of a client object shared by the two phases
FreshClientId_shared(old) == old

\* request_id of a client just constructed
FreshClientId(old) == 0

\* client = MCPClient() at the head of phase n: a new object, nothing written
EnterPhase(n) ==
    /\ process' = None
    /\ request_id' = FreshClientId(request_id)
    /\ written' = <<>>
    /\ log' = {}
    /\ stopped' = FALSE
    /\ result' = Ended("none", "none")
    /\ demo' = [demo EXCEPT !.phase = n, !.at = "start", !.step = 0,
                            !.rc = "unset", !.launch = "unset"]
    /\ UNCHANGED <<nspawned, status, stdin, stdout, pc, cur>>

\* main() calls demo_random_tools()
demo_random_tools ==
    /\ demo.phase = 0
    /\ pc[Main] = "idle"
    /\ EnterPhase(1)

\* main() calls demo_error_handling() with what demo_random_tools returned
demo_error_handling ==
    /\ demo.phase = 1
    /\ demo.at = "between"
    /\ EnterPhase(2)

\* start_server raised inside the try of a phase that goes on to its calls
OnLaunchFailure_proceed(d) == [d EXCEPT !.launch = "failed", !.at = "calls"]

\* start_server raised inside the try: except Exception: return 1, with the
\* finally clause still to run
OnLaunchFailure(d) == [d EXCEPT !.launch = "failed", !.rc = "1", !.at = "finally"]

\* await client.start_server() returns
demo_start ==
    /\ demo.at = "start"
    /\ start_server(Main)
    /\ demo' = [demo EXCEPT !.launch = "ok", !.at = "calls"]

\* await client.start_server() raises
demo_start_fail ==
    /\ demo.at = "start"
    /\ start_server_fail(Main)
    /\ demo' = OnLaunchFailure(demo)

\* a phase whose except clause returns at once, its finally clause skipped
OnCallEnd_nofinally(d, r) ==
    IF r.kind = "returned" \/ d.phase = 2
    THEN IF d.step + 1 = Calls(d.phase)
         THEN [d EXCEPT !.step = @ + 1, !.rc = "0", !.at = "finally"]
         ELSE [d EXCEPT !.step = @ + 1]
    ELSE IF d.phase = 1
         THEN [d EXCEPT !.result1 = "1", !.at = "between"]
         ELSE [d EXCEPT !.result2 = "1", !.at = "between"]

\* a call of the phase has ended with record r.  It returned: the next call,
\* or after the last one the end of the try with 0 to return.  It raised: in
\* demo_random_tools "except Exception: return 1"; in demo_error_handling the
\* inner "except Exception" prints and the script goes on.
OnCallEnd(d, r) ==
    IF r.kind = "returned" \/ d.phase = 2
    THEN IF d.step + 1 = Calls(d.phase)
         THEN [d EXCEPT !.step = @ + 1, !.rc = "0", !.at = "finally"]
         ELSE [d EXCEPT !.step = @ + 1]
    ELSE [d EXCEPT !.rc = "1", !.at = "finally"]

\* the script after a step of its call: where it was if the call is
\* suspended in readline(), else as OnCallEnd says
AfterCall == demo' = IF pc'[Main] = "reading" THEN demo ELSE OnCallEnd(demo, result')

\* the next call started as a coroutine of its own that the script does not
\* await before it goes on
demo_call_nowait ==
    /\ demo.at = "calls"
    /\ demo.step < Calls(demo.phase)
    /\ \E t \in Coroutines :
         \/ send_request_unstarted(t)
         \/ send_request_lost(t)
         \/ send_request(t)
    /\ AfterCall

\* the next "await client.call_tool(...)" of the phase: send_request as the
\* state of the client and of its child makes it run
demo_call ==
    /\ demo.at = "calls"
    /\ demo.step < Calls(demo.phase)
    /\ \/ send_request_unstarted(Main)
       \/ send_request_lost(Main)
       \/ send_request(Main)
    /\ AfterCall

\* the call the script is suspended in is resumed
demo_call_wake ==
    /\ demo.at = "calls"
    /\ send_request_wake(Main)
    /\ AfterCall

\* the phase returns rc to main()
Return(d, rc) ==
    IF d.phase = 1
    THEN [d EXCEPT !.result1 = rc, !.at = "between"]
    ELSE [d EXCEPT !.result2 = rc, !.at = "between"]

\* finally: await client.stop_server(), on a client with no handle
demo_stop_noop ==
    /\ demo.at = "finally"
    /\ stop_server_noop(Main)
    /\ demo' = Return(demo, demo.rc)

\* finally: await client.stop_server() raises: the exception replaces the
\* return value of the phase and leaves main(); __main__ exits with 1
demo_stop_raise ==
    /\ demo.at = "finally"
    /\ stop_server_raise(Main)
    /\ demo' = [demo EXCEPT !.at = "exit", !.exit = "raised"]

\* finally: await client.stop_server() terminates the child and waits
demo_stop ==
    /\ demo.at = "finally"
    /\ stop_server(Main)
    /\ UNCHANGED demo

\* wait() returns, stop_server returns, the phase returns
demo_stop_done ==
    /\ demo.at = "finally"
    /\ stop_server_done(Main)
    /\ demo' = Return(demo, demo.rc)

\* return 0 if result1 == 0 and result2 == 0, else 1
ExitCode(r1, r2) == IF r1 = "0" /\ r2 = "0" THEN "0" ELSE "1"

\* main() returns
demo_exit ==
    /\ demo.phase = 2
    /\ demo.at = "between"
    /\ demo' = [demo EXCEPT !.at = "exit", !.exit = ExitCode(demo.result1, demo.result2)]
    /\ UNCHANGED <<process, request_id, nspawned, status, stdin, stdout, pc,
                   cur, result, written, log, stopped>>

DemoNext ==
    \/ demo_random_tools
    \/ demo_error_handling
    \/ demo_start
    \/ demo_start_fail
    \/ demo_call
    \/ demo_call_wake
    \/ demo_stop_noop
    \/ demo_stop_raise
    \/ demo_stop
    \/ demo_stop_done
    \/ demo_exit
    \/ \E c \in Children : ChildRespond(c) /\ UNCHANGED demo
    \/ \E c \in Children : ChildExit(c) /\ UNCHANGED demo
    \/ \E c \in Children : ChildExitMidLine(c) /\ UNCHANGED demo
    \/ \E c \in Children : LoopClose(c) /\ UNCHANGED demo

\* main() run once from beginning to end
DemoSpec == Init /\ [][DemoNext]_vars

(* ----------------------------- claims --------------------------------- *)

\* the client holds a handle on a live child
Running == ~NotStarted(process) /\ status[process] = "running"

\* coroutine t takes a step of a call, of a stop
CallStep(t) == send_request_unstarted(t) \/ send_request_lost(t) \/ send_request(t)
StopStep(t) == stop_server_noop(t) \/ stop_server_raise(t) \/ stop_server(t)

\* in this step the call of coroutine t reads a line and ends; the line
CallReads(t) ==
    /\ send_request(t) \/ send_request_wake(t)
    /\ pc'[t] = "idle"
    /\ result'.nreads = 1
LineRead(t) ==
    IF pc[t] = "reading" THEN ReadLine(cur[t].child) ELSE ReadLine(process)

\* a response with no error whose result has a first content item with text
WellFormed(body) ==
    /\ body.json
    /\ ~Has(body.error)
    /\ Has(body.result)
    /\ Has(body.result[1].content)
    /\ Len(body.result[1].content[1]) > 0
    /\ Has(body.result[1].content[1][1].text)

\* C1: the ids of the request envelopes a client writes are strictly
\* increasing, so none is used twice, whatever became of the earlier calls.
C1_IdsStrictlyIncreasing ==
    \A i, j \in 1..Len(written) : i < j => written[i] < written[j]

\* a second request is written after the call of the first one failed
C1_Witness ==
    /\ Len(written) >= 2
    /\ result.op = "call"
    /\ result.id = 1
    /\ result.kind \in {"ToolError", "JSONDecodeError"}

\* C2: a call that reads an envelope with an error mapping fails with
\* ToolError carrying the payload; the failure changes neither the process
\* handle nor the child, and the id counter and the requests written are as
\* the sending of that call's one request left them; and a call that reads a
\* well-formed result returns, whatever failed before.
C2_ToolErrorIsLocal ==
    [][\A t \in Tasks : CallReads(t) =>
        LET body == LineRead(t).body IN
        /\ (body.json /\ Has(body.error)) =>
              /\ result'.kind = "ToolError"
              /\ result'.value = body.error[1]
              /\ UNCHANGED <<process, status>>
              /\ IF pc[t] = "reading"
                 THEN UNCHANGED <<request_id, written>>
                 ELSE /\ request_id' = request_id + 1
                      /\ written' = Append(written, request_id + 1)
        /\ WellFormed(body) => result'.kind = "returned"]_vars

\* a call returned a value after an earlier call failed with ToolError
C2_Witness ==
    /\ log # {}
    /\ result.op = "call"
    /\ result.kind = "returned"
    /\ result.id >= 2

\* C3: a call whose read was ended by the close of the child's output, before
\* a whole line had arrived, fails with a decode error and returns no value.
C3_ClosedStreamFailsCall ==
    (result.op = "call" /\ result.nreads = 1 /\ ~result.nl)
        => result.kind = "JSONDecodeError"

\* the part of C3 that holds: once the child's output is closed, a call
\* suspended in readline() on it ends
ClosedStreamEndsCall ==
    \A t \in Tasks :
        (pc[t] = "reading" /\ status[cur[t].child] # "running") ~> (pc[t] = "idle")

\* C4: stop_server does not raise: neither a second time after a completed
\* stop, nor after the child exited on its own.
C4_StopNeverRaises ==
    result.op = "stop" => result.kind = "returned"

\* C5: stop_server on a client that holds no process handle returns without
\* raising and changes nothing: no child is signalled, the handle and the id
\* counter stay as they are.
C5_StopUnstartedIsNoop ==
    [][\A t \in Tasks : (StopStep(t) /\ NotStarted(process)) =>
        /\ result' = Ended("stop", "returned")
        /\ UNCHANGED <<process, request_id, nspawned, status, stdin, stdout,
                       written, stopped, pc, cur>>]_vars

\* stop_server has returned on a client that never got a process handle
C5_Witness ==
    /\ NotStarted(process)
    /\ result = Ended("stop", "returned")
    /\ request_id = 0

\* C6: once stop_server has terminated the child the client is stopped for
\* good: it never again holds a handle on a live child.
C6_StoppedIsTerminal ==
    stopped => ~Running

\* C7: a call on a client that holds no process handle raises, writes
\* nothing and leaves the id counter alone, so the first request ever
\* written carries id 1.
C7_UnstartedCallTakesNoId ==
    /\ [][\A t \in Tasks : (CallStep(t) /\ NotStarted(process)) =>
            /\ result' = Ended("call", "NotStartedError")
            /\ UNCHANGED <<process, request_id, nspawned, status, stdin,
                           stdout, written, stopped, pc, cur>>]_vars
    /\ [](Len(written) > 0 => written[1] = 1)

\* a call was refused on a client with no process handle: no id taken,
\* nothing written
C7_Witness ==
    /\ result = Ended("call", "NotStartedError")
    /\ NotStarted(process)
    /\ request_id = 0
    /\ written = <<>>

\* C8: a client creates at most one child process in its lifetime and holds
\* the handle of every child that is alive.
C8_SingleChild ==
    /\ nspawned <= 1
    /\ \A c \in Children : status[c] = "running" => process = c

\* C9 as claimed: every call on a started, not stopped client ends having
\* written one request line and read one response line.
C9_OneWriteOneRead ==
    (result.op = "call" /\ result.kind # "NotStartedError" /\ ~stopped)
        => (result.nwrites = 1 /\ result.nreads = 1)

\* the calls that end without having read: the write found the child dead,
\* or readline() was refused because another call was suspended in it
Unread == {"ConnectionResetError", "ReadBusyError"}

\* C9, amended: every call that passes the guard writes its request exactly
\* once and reads exactly one line, except that it reads nothing when it ends
\* with ConnectionResetError or is refused by readline(); a suspended call has
\* written once and read nothing.
C9_OneWriteAtMostOneRead ==
    /\ (result.op = "call" /\ result.kind # "NotStartedError") =>
          /\ result.nwrites = 1
          /\ result.nreads = IF result.kind \in Unread THEN 0 ELSE 1
    /\ \A t \in Tasks : pc[t] = "reading" =>
          (cur[t].nwrites = 1 /\ cur[t].nreads = 0)

\* a call on a started client whose child had died: one write, no read
C9_Witness ==
    /\ ~stopped
    /\ result.op = "call"
    /\ result.kind = "ConnectionResetError"
    /\ result.nwrites = 1
    /\ result.nreads = 0

\* C10: the response a call accepts, returning its result or raising
\* ToolError, carries the id of the request that call sent.
C10_ResponseIdMatches ==
    (result.op = "call" /\ result.kind \in {"returned", "ToolError"})
        => result.respid = result.id

(* ------------------------ claims on the demo script ------------------- *)

\* the phase has returned to main(), or main() has ended
PhaseOver(d) == d.at \in {"between", "exit"}

\* C11: each phase leaves only through its finally clause, that is by a step
\* of stop_server, and whenever a phase has returned or main has ended no
\* child process is running.
C11_StopOnEveryExitPath ==
    /\ [](PhaseOver(demo) => \A c \in Children : status[c] # "running")
    /\ [][~PhaseOver(demo) /\ PhaseOver(demo')
            => demo.at = "finally" /\ result'.op = "stop"]_vars

\* the first phase has returned 1 after a failed call, its child terminated
\* by the stop_server of the finally clause
C11_Witness ==
    /\ demo.phase = 1 /\ demo.at = "between" /\ demo.result1 = "1"
    /\ demo.launch = "ok" /\ stopped
    /\ status[process] = "closed"

(* ------------------ claims on the shape of the result ----------------- *)

\* a response with no error whose result lacks the content list, has an empty
\* one, or has a first item without text
Malformed(body) == body.json /\ ~Has(body.error) /\ ~WellFormed(body)

\* C12: a call that reads a response with no error and a malformed result
\* fails; it returns no value.
C12_MalformedResultFails ==
    [][\A t \in Tasks : (CallReads(t) /\ Malformed(LineRead(t).body))
                            => result'.kind # "returned"]_vars

\* C13: a call that reads a well-formed result returns exactly the text of
\* the first content item, whatever items follow it.
C13_ReturnsFirstText ==
    [][\A t \in Tasks : (CallReads(t) /\ WellFormed(LineRead(t).body))
          => /\ result'.kind = "returned"
             /\ result'.value = LineRead(t).body.result[1].content[1][1].text[1]]_vars

\* a call has returned the text of the first of two content items
C13_Witness ==
    /\ result.op = "call"
    /\ result.kind = "returned"
    /\ result.value = TwoItemsBody.result[1].content[1][1].text[1]
    /\ result.nreads = 1

(* --------------------- claims on the order of calls ------------------- *)

\* on no channel is more than one request on its way: written and not yet
\* read by the child, or answered and the answer not yet read by the client
OneOutstanding == \A c \in Children : Len(stdin[c]) + Len(stdout[c]) <= 1

\* a call that reads a line is the call of the request written last, and
\* the line is the only one there is to read
ReadsInOrder ==
    CallReads(Main) => /\ result'.id = request_id'
                       /\ Len(stdout[process]) <= 1
                       /\ stdout'[process] = <<>>

\* C14: in the demo at most one request is outstanding on a channel, the
\* request of call n+1 is written only after call n has read its response
\* line, and each call reads the answer to its own request.
C14_NextWrittenAfterRead ==
    /\ []OneOutstanding
    /\ [][ReadsInOrder]_vars
    /\ [][Len(written') > Len(written) =>
            \/ written = <<>>
            \/ /\ pc[Main] = "idle"
               /\ result.op = "call" /\ result.id = request_id
               /\ result.nreads = 1]_vars

\* C14, amended: in the demo at most one request is outstanding on a
\* channel, the request of call n+1 is written only after call n has ended,
\* having read its response line or having failed on its write because the
\* child was gone, and each call that reads a line reads the answer to its
\* own request.
C14_NextWrittenAfterCallEnded ==
    /\ []OneOutstanding
    /\ [][ReadsInOrder]_vars
    /\ [][Len(written') > Len(written) =>
            \/ written = <<>>
            \/ /\ pc[Main] = "idle"
               /\ result.op = "call" /\ result.id = request_id
               /\ result.nreads = IF result.kind = "ConnectionResetError"
                                  THEN 0 ELSE 1]_vars

\* the first phase has made all its calls, each after the one before it had
\* read its line
C14_Witness ==
    /\ demo.phase = 1
    /\ demo.step = Phase1Calls
    /\ Len(written) = Phase1Calls
    /\ result.id = Phase1Calls
    /\ result.nreads = 1

(* ------------------ claims on the failure of a phase ------------------ *)

\* a call of the first phase has failed: that call was its last, no request
\* was written after it, and the phase returns nothing but 1
FirstPhaseStopsAtFailure ==
    (demo.phase = 1 /\ demo.launch = "ok" /\ demo.rc = "1") =>
        /\ Len(written) <= demo.step + 1
        /\ demo.step < Phase1Calls
        /\ demo.result1 \in {"unset", "1"}

\* main has ended: both phases have run and returned, and main returned 0
\* exactly if both returned 0
MainReturnsVerdict ==
    demo.at = "exit" =>
        /\ demo.phase = 2
        /\ demo.result1 \in {"0", "1"}
        /\ demo.result2 \in {"0", "1"}
        /\ demo.exit \in {"0", "1"}
        /\ demo.exit = "0" <=> (demo.result1 = "0" /\ demo.result2 = "0")

\* C15: a failed exchange in the first phase ends that phase, which makes no
\* further call and returns 1; the second phase still runs, and main returns
\* 0 if and only if both phases returned 0.
C15_FailureFatalToPhaseOnly ==
    FirstPhaseStopsAtFailure /\ MainReturnsVerdict

(* ------------------- claims on a failed launch ------------------------ *)

\* C16: when the child process cannot be created, start_server raises to the
\* phase that called it and records no handle; from then on the phase makes
\* no call, writes no request, returns 1, and its stop_server finds no handle
\* and returns having terminated nothing.
C16_LaunchFailure ==
    /\ [][demo_start_fail => /\ result' = Ended("start", "OSError")
                             /\ NotStarted(process')
                             /\ demo'.at = "finally"]_vars
    /\ [](demo.launch = "failed" =>
            /\ NotStarted(process)
            /\ demo.step = 0 /\ written = <<>> /\ request_id = 0
            /\ demo.rc = "1"
            /\ result \in {Ended("start", "OSError"), Ended("stop", "returned")}
            /\ ~stopped
            /\ \A c \in Children : status[c] # "running")

\* the first phase has returned 1 after a failed launch and a stop_server
\* that had nothing to stop
C16_Witness ==
    /\ demo.phase = 1 /\ demo.at = "between"
    /\ demo.launch = "failed"
    /\ demo.result1 = "1"
    /\ result = Ended("stop", "returned")
    /\ nspawned = 0

(* ----------------------- claims on the ids ---------------------------- *)

\* C17: the k-th request a client object writes carries id k, the counter
\* equals the number of requests the client has written, failed calls
\* counted, and a phase begins with a client whose counter is 0.
C17_IdsGapFree ==
    /\ request_id = Len(written)
    /\ \A k \in 1..Len(written) : written[k] = k
    /\ demo.at = "start" => request_id = 0

\* the second phase, after a first phase that made all its calls, has
\* written three requests on its own client, one of them answered by an
\* error
C17_Witness ==
    /\ demo.phase = 2
    /\ demo.result1 = "0"
    /\ written = <<1, 2, 3>>
    /\ request_id = 3
    /\ log # {}

(* ------------------- claims on concurrent calls ----------------------- *)

\* the ids in q are in increasing order, none twice
Increasing(q) == \A i, j \in 1..Len(q) : i < j => q[i] < q[j]

\* C18: with several coroutines calling on one running client, the counter
\* is incremented only in a step that also writes the request with the new
\* id, so that the requests written carry distinct ids and stand on the
\* child's input in increasing order of id.
C18_AllocateAndWriteAtomic ==
    /\ [][(request_id' # request_id \/ written' # written) =>
            /\ request_id' = request_id + 1
            /\ written' = Append(written, request_id')
            /\ stdin'[process] = Append(stdin[process], request_id')]_vars
    /\ [](\A c \in Children : Increasing(stdin[c]))
    /\ [](Cardinality({written[k] : k \in 1..Len(written)}) = Len(written))

\* two calls overlap: one is suspended in readline(), another has written
\* its request behind the first one's
C18_Witness ==
    /\ \E t \in Coroutines : pc[t] = "reading" /\ cur[t].id = 1
    /\ result.op = "call" /\ result.id = 2
    /\ ~NotStarted(process)
    /\ stdin[process] = <<1, 2>>

====
